---- MODULE Spec2Model ----
(***************************************************************************)
(* Role-manifest loading, validation, role selection and dev-version       *)
(* signatures of fissile (package model, src/app/command_router.go).       *)
(*                                                                         *)
(* Conventions.  A Go pointer or map that may be nil is a sequence of      *)
(* length 0 (nil) or 1 (the value).  A Go map is a TLA+ function; the      *)
(* order in which `range` walks it is an input of the operation.  Go       *)
(* slices are sequences, indexed from 1.  A *Role keeps its identity in    *)
(* the field id (the role's position in the document).                     *)
(***************************************************************************)
EXTENDS Integers, Sequences, FiniteSets, TLC

VARIABLES
  pc,            \* "start" before LoadRoleManifest is called, "loaded" after
  input,         \* the manifest file and the releases handed to LoadRoleManifest
  ret,           \* what LoadRoleManifest returned: manifest, error
  allErrs,       \* the validation.ErrorList of the load, as it stood at line 356
  runValidated,  \* ids of the roles validateRoleRun was called on, in call order
  sel,           \* the last SelectRoles call: names, roles, error
  vin,           \* the role whose dev version is computed, and the script files
  last,          \* the last GetRoleDevVersion call: the role it was called on, its result
  prev           \* the GetRoleDevVersion call before the last

vars == <<pc, input, ret, allErrs, runValidated, sel, vin, last, prev>>

----------------------------------------------------------------------------
(* Bounds of the model *)

MaxRoles == 2
MaxVars == 2
MaxSelect == 2
MaxSorted == 3
MaxJobs == 2

----------------------------------------------------------------------------
(* Generic helpers *)

Nil == <<>>
Some(v) == <<v>>

Range(s) == {s[i] : i \in 1..Len(s)}

SeqsUpTo(S, n) == UNION {[1..k -> S] : k \in 0..n}

Perms(S) == {p \in [1..Cardinality(S) -> S] : Range(p) = S}

RECURSIVE Flatten(_)
Flatten(ss) == IF Len(ss) = 0 THEN <<>> ELSE Head(ss) \o Flatten(Tail(ss))

Count(s, P(_)) == Cardinality({i \in 1..Len(s) : P(s[i])})

(* The strings used as names, in the byte order Go's < compares them by *)
NameOrder == <<"", "A", "B", "C", "DNS_RECORD_NAME", "IP_ADDRESS">>

Rank(s) == CHOOSE i \in 1..Len(NameOrder) : NameOrder[i] = s

StrLess(a, b) == Rank(a) < Rank(b)

----------------------------------------------------------------------------
(* Types and constants of the package *)

RoleTypeBoshTask == "bosh-task"
RoleTypeBosh == "bosh"
RoleTypeDocker == "docker"

FlightStagePreFlight == "pre-flight"
FlightStageFlight == "flight"
FlightStagePostFlight == "post-flight"
FlightStageManual == "manual"

(* validation.Invalid, Required, NotFound, Forbidden: a finding is a field   *)
(* path, the offending value and a message                                   *)
Invalid(field, value, detail) == [kind |-> "Invalid", field |-> field, value |-> value, detail |-> detail]
Required(field) == [kind |-> "Required", field |-> field, value |-> <<>>, detail |-> <<>>]
NotFound(field, value) == [kind |-> "NotFound", field |-> field, value |-> value, detail |-> <<>>]
Forbidden(field, detail) == [kind |-> "Forbidden", field |-> field, value |-> <<>>, detail |-> detail]

(* validation.ValidateNonnegativeField *)
ValidateNonnegativeField(value, field) ==
  IF value < 0 THEN <<Invalid(field, <<"negative">>, <<"must be greater than or equal to 0">>)>> ELSE <<>>

(* validation.ValidatePortRange: a port number or a range of port numbers *)
ValidPorts == {"80", "8080-8090"}
ValidatePortRange(port, field) ==
  IF port \in ValidPorts THEN <<>> ELSE <<Invalid(field, <<port>>, <<"invalid port range">>)>>

(* validation.ValidateProtocol *)
ValidProtocols == {"TCP", "UDP"}
ValidateProtocol(protocol, field) ==
  IF protocol \in ValidProtocols THEN <<>> ELSE <<Invalid(field, <<protocol>>, <<"invalid protocol">>)>>

(* A template is a sequence of tokens: literal text, a {{NAME}} tag, or a   *)
(* tag that is never closed.  parseTemplate returns the names of the tags   *)
(* in order, or an error for a malformed template.                          *)
TText == <<"text">>
TOpen == <<"{{">>
TVar(n) == <<"{{", n, "}}">>

parseTemplate(template) ==
  IF \E i \in 1..Len(template) : template[i] = TOpen
  THEN [err |-> TRUE, vars |-> <<>>]
  ELSE [err |-> FALSE,
        vars |-> [i \in 1..Len(SelectSeq(template, LAMBDA t : Len(t) = 3)) |->
                    SelectSeq(template, LAMBDA t : Len(t) = 3)[i][2]]]

(* MakeMapOfVariables: the declared variables, keyed by name *)
RECURSIVE mapOfVariables(_, _)
mapOfVariables(variables, m) ==
  IF Len(variables) = 0 THEN m
  ELSE LET cv == Head(variables)
       IN mapOfVariables(Tail(variables),
            [n \in DOMAIN m \cup {cv.Name} |-> IF n = cv.Name THEN cv ELSE m[n]])

MakeMapOfVariables(manifest) == mapOfVariables(manifest.Configuration.Variables, <<>>)

(* release.LookupJob *)
LookupJob(release, jobName) ==
  IF \E i \in 1..Len(release.Jobs) : release.Jobs[i].Name = jobName
  THEN Some(release.Jobs[CHOOSE i \in 1..Len(release.Jobs) : release.Jobs[i].Name = jobName])
  ELSE Nil

----------------------------------------------------------------------------
(* Role-run validation *)

normalizeFlightStage(role) ==
  LET stage == role.Run[1].FlightStage
  IN CASE stage = "" ->
            [role |-> [role EXCEPT !.Run = Some([role.Run[1] EXCEPT !.FlightStage = FlightStageFlight])],
             errs |-> <<>>]
       [] stage \in {FlightStagePreFlight, FlightStageFlight, FlightStagePostFlight, FlightStageManual} ->
            [role |-> role, errs |-> <<>>]
       [] OTHER ->
            [role |-> role,
             errs |-> <<Invalid(<<"roles", role.Name, "run", "flight-stage">>, <<stage>>,
                                <<"Expected one of flight, manual, post-flight, or pre-flight">>)>>]

validateHealthCheck(role) ==
  IF Len(role.Run[1].HealthCheck) = 0 THEN <<>>
  ELSE LET hc == role.Run[1].HealthCheck[1]
           checks == (IF hc.URL # "" THEN <<"url">> ELSE <<>>)
                     \o (IF Len(hc.Command) > 0 THEN <<"command">> ELSE <<>>)
                     \o (IF hc.Port # 0 THEN <<"port">> ELSE <<>>)
       IN IF Len(checks) # 1
          THEN <<Invalid(<<"roles", role.Name, "run", "healthcheck">>, checks,
                         <<"Expected exactly one of url, command, or port">>)>>
          ELSE <<>>

validateExposedPort(role, port) ==
  (IF port.Name = ""
   THEN <<Required(<<"roles", role.Name, "run", "exposed-ports", "name">>)>> ELSE <<>>)
  \o ValidatePortRange(port.External, <<"roles", role.Name, "run", "exposed-ports", port.Name, "external">>)
  \o ValidatePortRange(port.Internal, <<"roles", role.Name, "run", "exposed-ports", port.Name, "internal">>)
  \o ValidateProtocol(port.Protocol, <<"roles", role.Name, "run", "exposed-ports", port.Name, "protocol">>)

validateRunEnvironment(role, declared) ==
  IF Len(role.Run[1].Environment) = 0 THEN <<>>
  ELSE IF role.Type = RoleTypeDocker
       THEN LET undeclared == SelectSeq(role.Run[1].Environment, LAMBDA envVar : envVar \notin DOMAIN declared)
            IN [i \in 1..Len(undeclared) |->
                  NotFound(<<"roles", role.Name, "run", "env">>,
                           <<"No variable declaration of", undeclared[i]>>)]
       ELSE <<Forbidden(<<"roles", role.Name, "run", "env">>,
                        <<"Non-docker role declares bogus parameters">>)>>

(* lines 744-790: the checks that follow the flight stage; n is the role as  *)
(* normalizeFlightStage left it, with that function's findings               *)
validateRunFields(n, declared) ==
  [role |-> n.role,
   errs |-> n.errs
            \o validateHealthCheck(n.role)
            \o ValidateNonnegativeField(n.role.Run[1].Memory, <<"roles", n.role.Name, "run", "memory">>)
            \o ValidateNonnegativeField(n.role.Run[1].VirtualCPUs, <<"roles", n.role.Name, "run", "virtual-cpus">>)
            \o Flatten([i \in 1..Len(n.role.Run[1].ExposedPorts) |->
                          validateExposedPort(n.role, n.role.Run[1].ExposedPorts[i])])
            \o validateRunEnvironment(n.role, declared)]

(* validateRoleRun: the role as normalized, and the findings *)
validateRoleRun(role, declared) ==
  IF Len(role.Run) = 0
  THEN [role |-> role, errs |-> <<Required(<<"roles", role.Name, "run">>)>>]
  ELSE validateRunFields(normalizeFlightStage(role), declared)

----------------------------------------------------------------------------
(* LoadRoleManifest, lines 298-317: the role-filtering loop.  i is the Go    *)
(* index plus one; the result is the role list, the findings and the ids of  *)
(* the roles validateRoleRun was called on.                                  *)

(* lines 303-314: the switch on the type of roles[i]: whether it continues   *)
(* the loop, the role and the role list as it leaves them, its findings      *)
typeSwitch(i, roles) ==
  CASE roles[i].Type = "" ->
         [continue |-> FALSE, role |-> [roles[i] EXCEPT !.Type = RoleTypeBosh], kept |-> TRUE,
          roles |-> roles, errs |-> <<>>]
    [] roles[i].Type \in {RoleTypeBosh, RoleTypeBoshTask} ->
         [continue |-> TRUE, role |-> roles[i], kept |-> TRUE, roles |-> roles, errs |-> <<>>]
    [] roles[i].Type = RoleTypeDocker ->
         [continue |-> FALSE, role |-> roles[i], kept |-> FALSE,
          roles |-> SubSeq(roles, 1, i - 1) \o SubSeq(roles, i + 1, Len(roles)), errs |-> <<>>]
    [] OTHER ->
         [continue |-> FALSE, role |-> roles[i], kept |-> TRUE, roles |-> roles,
          errs |-> <<Invalid(<<"roles", roles[i].Name, "type">>, <<roles[i].Type>>,
                             <<"Excpected one of bosh, bosh-task, or docker">>)>>]

(* line 316, for a role the switch did not continue on: v is what            *)
(* validateRoleRun returned; the role is a pointer, so what validateRoleRun  *)
(* changed in it shows in the list while the role is in it                   *)
afterValidate(i, sw, v) ==
  [Roles |-> IF sw.kept THEN [sw.roles EXCEPT ![i] = v.role] ELSE sw.roles,
   errs |-> sw.errs \o v.errs,
   validated |-> <<v.role.id>>]

(* one iteration of the loop *)
roleStep(i, sw, declared) ==
  IF sw.continue
  THEN [Roles |-> sw.roles, errs |-> <<>>, validated |-> <<>>]
  ELSE afterValidate(i, sw, validateRoleRun(sw.role, declared))

RECURSIVE roleLoop(_, _, _, _, _)
(* the loop as it would be if the index went down by two *)
roleLoopByTwo(i, step, errs, validated, declared) ==
  roleLoop(i - 2, step.Roles, errs \o step.errs, validated \o step.validated, declared)

roleLoopNext(i, step, errs, validated, declared) ==
  roleLoop(i - 1, step.Roles, errs \o step.errs, validated \o step.validated, declared)

roleLoop(i, roles, errs, validated, declared) ==
  IF i < 1 THEN [Roles |-> roles, errs |-> errs, validated |-> validated]
  ELSE roleLoopNext(i, roleStep(i, typeSwitch(i, roles), declared), errs, validated, declared)

filterRoles(roles, declared) == roleLoop(Len(roles), roles, <<>>, <<>>, declared)

(* lines 298-309, the index bookkeeping alone: the ids of the roles that     *)
(* rolesManifest.Roles[i] is, iteration after iteration, while the switch    *)
(* removes from the list                                                     *)
RECURSIVE visitLoop(_, _, _)
visitLoop(i, roles, visited) ==
  IF i < 1 THEN visited
  ELSE visitLoop(i - 1, typeSwitch(i, roles).roles, Append(visited, roles[i].id))

(* lines 268-278: the releases by name; nil when a name is loaded twice *)
RECURSIVE mapReleases(_, _)
mapReleases(releases, mapped) ==
  IF Len(releases) = 0 THEN Some(mapped)
  ELSE LET release == Head(releases)
       IN IF release.Name \in DOMAIN mapped THEN Nil
          ELSE mapReleases(Tail(releases),
                 [n \in DOMAIN mapped \cup {release.Name} |->
                    IF n = release.Name THEN release ELSE mapped[n]])

(* lines 336-344: the job looked up in its release *)
jobOrError(role, roleJob, job) ==
  IF Len(job) = 0
  THEN [job |-> Nil,
        errs |-> <<Invalid(<<"roles", role.Name, "jobs", roleJob.Name>>, <<roleJob.ReleaseName>>,
                           <<"job not found">>)>>]
  ELSE [job |-> job, errs |-> <<>>]

(* lines 325-345: one entry of a role's job list *)
resolveJob(role, roleJob, mappedReleases) ==
  IF roleJob.ReleaseName \notin DOMAIN mappedReleases
  THEN [job |-> Nil,
        errs |-> <<Invalid(<<"roles", role.Name, "jobs", roleJob.Name>>, <<roleJob.ReleaseName>>,
                           <<"Referenced release is not loaded">>)>>]
  ELSE jobOrError(role, roleJob, LookupJob(mappedReleases[roleJob.ReleaseName], roleJob.Name))

calculateRoleConfigurationTemplates(role, manifest) ==
  LET own == IF Len(role.Configuration) = 0 \/ Len(role.Configuration[1].Templates) = 0
             THEN <<>> ELSE role.Configuration[1].Templates[1]
      global == manifest.Configuration.Templates
      roleConfigs == [k \in DOMAIN global \cup DOMAIN own |-> IF k \in DOMAIN own THEN own[k] ELSE global[k]]
  IN [role EXCEPT !.Configuration = Some([Templates |-> Some(roleConfigs)])]

(* lines 323-347: the role with the jobs that resolved and its merged templates *)
withResolvedJobs(role, manifest, res) ==
  [role |-> calculateRoleConfigurationTemplates(
              [role EXCEPT !.Jobs = Flatten([i \in 1..Len(res) |-> res[i].job])], manifest),
   errs |-> Flatten([i \in 1..Len(res) |-> res[i].errs])]

(* lines 321-349: one role of the filtered list *)
resolveRole(role, manifest, mappedReleases) ==
  withResolvedJobs(role, manifest,
    [i \in 1..Len(role.JobNameList) |-> resolveJob(role, role.JobNameList[i], mappedReleases)])

RECURSIVE indexRoles(_, _)
indexRoles(roles, byName) ==
  IF Len(roles) = 0 THEN byName
  ELSE LET role == Head(roles)
       IN indexRoles(Tail(roles),
            [n \in DOMAIN byName \cup {role.Name} |-> IF n = role.Name THEN role ELSE byName[n]])

----------------------------------------------------------------------------
(* The manifest-wide validation passes *)

(* lines 558-566: one finding and no more, as if the loop ended at the first *)
RECURSIVE sortLoopFirstOnly(_, _)
sortLoopFirstOnly(variables, previousName) ==
  IF Len(variables) = 0 THEN <<>>
  ELSE IF StrLess(Head(variables).Name, previousName)
       THEN <<Invalid(<<"configuration", "variables">>, <<previousName>>,
                      <<"Does not sort before", Head(variables).Name>>)>>
       ELSE sortLoopFirstOnly(Tail(variables), Head(variables).Name)

(* lines 558-566: the loop over the variables, previousName starting empty *)
RECURSIVE sortLoop(_, _)
sortLoop(variables, previousName) ==
  IF Len(variables) = 0 THEN <<>>
  ELSE (IF StrLess(Head(variables).Name, previousName)
        THEN <<Invalid(<<"configuration", "variables">>, <<previousName>>,
                       <<"Does not sort before", Head(variables).Name>>)>>
        ELSE <<>>)
       \o sortLoop(Tail(variables), Head(variables).Name)

validateVariableSorting(variables) == sortLoop(variables, "")

(* lines 590-597 and 671-686: the variables of the well-formed templates   *)
(* the role loop scans, in scan order                                       *)
propertyTemplateVars(role, property) ==
  LET propertyName == <<"properties", property>>
      templates == role.Configuration[1].Templates[1]
  IN IF propertyName \in DOMAIN templates /\ ~parseTemplate(templates[propertyName]).err
     THEN parseTemplate(templates[propertyName]).vars ELSE <<>>

jobTemplateVars(role, job) ==
  Flatten([p \in 1..Len(job.Properties) |-> propertyTemplateVars(role, job.Properties[p])])

roleTemplateVars(roles) ==
  Flatten([r \in 1..Len(roles) |->
    Flatten([j \in 1..Len(roles[r].Jobs) |-> jobTemplateVars(roles[r], roles[r].Jobs[j])])])

(* lines 623-627 and 707-713: the same for the global templates, walked in *)
(* the order tord                                                           *)
globalTemplateVars(templates, tord) ==
  Flatten([k \in 1..Len(tord) |->
    IF parseTemplate(templates[tord[k]]).err THEN <<>> ELSE parseTemplate(templates[tord[k]]).vars])

(* the same loop, returning as soon as one name was found used *)
RECURSIVE useVarsStopAtFirstUse(_, _)
useVarsStopAtFirstUse(envVars, unusedConfigs) ==
  IF Len(envVars) = 0 THEN [unused |-> unusedConfigs, stop |-> FALSE]
  ELSE IF Head(envVars) \in DOMAIN unusedConfigs
       THEN [unused |-> [n \in DOMAIN unusedConfigs \ {Head(envVars)} |-> unusedConfigs[n]], stop |-> TRUE]
       ELSE useVarsStopAtFirstUse(Tail(envVars), unusedConfigs)

(* lines 602-610 and 628-636: remove the used names; stop when none is left *)
RECURSIVE useVars(_, _)
useVars(envVars, unusedConfigs) ==
  IF Len(envVars) = 0 THEN [unused |-> unusedConfigs, stop |-> FALSE]
  ELSE LET left == [n \in DOMAIN unusedConfigs \ {Head(envVars)} |-> unusedConfigs[n]]
       IN IF DOMAIN left = {} THEN [unused |-> left, stop |-> TRUE]
          ELSE useVars(Tail(envVars), left)

(* lines 642-649: vord is the order in which the map of unused is walked *)
reportUnused(unusedConfigs, vord) ==
  LET names == SelectSeq(vord, LAMBDA cv : cv \in DOMAIN unusedConfigs /\ ~unusedConfigs[cv].Private)
  IN [i \in 1..Len(names) |->
        NotFound(<<"configuration", "variables">>, <<"No templates using", names[i]>>)]

(* lines 616-651: after the roles, the global templates and the report *)
usageAfterGlobal(inGlobal, vord) ==
  IF inGlobal.stop THEN <<>> ELSE reportUnused(inGlobal.unused, vord)

usageAfterRoles(inRoles, manifest, tord, vord) ==
  IF inRoles.stop THEN <<>>
  ELSE usageAfterGlobal(useVars(globalTemplateVars(manifest.Configuration.Templates, tord), inRoles.unused),
                        vord)

usageFrom(unusedConfigs, manifest, tord, vord) ==
  IF DOMAIN unusedConfigs = {} THEN <<>>
  ELSE usageAfterRoles(useVars(roleTemplateVars(manifest.Roles), unusedConfigs), manifest, tord, vord)

validateVariableUsage(manifest, tord, vord) == usageFrom(MakeMapOfVariables(manifest), manifest, tord, vord)

(* the same loop without the placeholder that marks a name as reported *)
RECURSIVE reportUndeclaredEachTime(_, _, _, _)
reportUndeclaredEachTime(envVars, declaredConfigs, field, message) ==
  IF Len(envVars) = 0 THEN [errs |-> <<>>, declared |-> declaredConfigs]
  ELSE IF Head(envVars) \in declaredConfigs
       THEN reportUndeclaredEachTime(Tail(envVars), declaredConfigs, field, message)
       ELSE LET rest == reportUndeclaredEachTime(Tail(envVars), declaredConfigs, field, message)
            IN [errs |-> <<NotFound(field, <<message, Head(envVars)>>)>> \o rest.errs,
                declared |-> rest.declared]

(* lines 687-698 and 714-726: report each name that is not declared, once *)
RECURSIVE reportUndeclared(_, _, _, _)
reportUndeclared(envVars, declaredConfigs, field, message) ==
  IF Len(envVars) = 0 THEN [errs |-> <<>>, declared |-> declaredConfigs]
  ELSE IF Head(envVars) \in declaredConfigs
       THEN reportUndeclared(Tail(envVars), declaredConfigs, field, message)
       ELSE LET rest == reportUndeclared(Tail(envVars), declaredConfigs \cup {Head(envVars)}, field, message)
            IN [errs |-> <<NotFound(field, <<message, Head(envVars)>>)>> \o rest.errs,
                declared |-> rest.declared]

(* lines 704-729: after the roles, the global templates *)
templateUsageAfterRoles(inRoles, manifest, tord) ==
  inRoles.errs
  \o reportUndeclared(globalTemplateVars(manifest.Configuration.Templates, tord), inRoles.declared,
                      <<"configuration", "templates">>, "No variable declaration of").errs

validateTemplateUsage(manifest, tord) ==
  templateUsageAfterRoles(
    reportUndeclared(roleTemplateVars(manifest.Roles),
                     DOMAIN MakeMapOfVariables(manifest) \cup {"IP_ADDRESS", "DNS_RECORD_NAME"},
                     <<"configuration", "variables">>, "No declaration of"),
    manifest, tord)

validateNonTemplates(manifest, tord) ==
  LET templates == manifest.Configuration.Templates
      constant == SelectSeq(tord, LAMBDA property :
                    ~parseTemplate(templates[property]).err
                    /\ Len(parseTemplate(templates[property]).vars) = 0)
  IN [i \in 1..Len(constant) |->
        Invalid(<<"configuration", "templates">>, Flatten(templates[constant[i]]),
                <<"Using as a constant">> \o constant[i])]

----------------------------------------------------------------------------
(* LoadRoleManifest *)

(* lines 286-291: an absent configuration or template map becomes an empty one *)
defaultConfiguration(configuration) ==
  IF Len(configuration) = 0 THEN [Templates |-> <<>>, Variables |-> <<>>]
  ELSE [Templates |-> IF Len(configuration[1].Templates) = 0 THEN <<>> ELSE configuration[1].Templates[1],
        Variables |-> configuration[1].Variables]

fatalError(message) ==
  [manifest |-> Nil, err |-> Some([kind |-> "fatal", message |-> message, findings |-> <<>>]),
   allErrs |-> <<>>, validated |-> <<>>]

(* lines 356-360 *)
returnManifest(manifest, errs, validated) ==
  IF Len(errs) # 0
  THEN [manifest |-> Nil, err |-> Some([kind |-> "validation", message |-> "", findings |-> errs]),
        allErrs |-> errs, validated |-> validated]
  ELSE [manifest |-> Some(manifest), err |-> Nil, allErrs |-> errs, validated |-> validated]

(* the passes as they would run if each ran only while nothing was found yet *)
manifestPassesUntilFinding(manifest, tord, vord) ==
  IF validateVariableSorting(manifest.Configuration.Variables) # <<>>
  THEN validateVariableSorting(manifest.Configuration.Variables)
  ELSE IF validateVariableUsage(manifest, tord, vord) # <<>>
       THEN validateVariableUsage(manifest, tord, vord)
       ELSE IF validateTemplateUsage(manifest, tord) # <<>>
            THEN validateTemplateUsage(manifest, tord)
            ELSE validateNonTemplates(manifest, tord)

(* lines 351-354: the four manifest-wide passes, each appended to the list *)
manifestPasses(manifest, tord, vord) ==
  validateVariableSorting(manifest.Configuration.Variables)
  \o validateVariableUsage(manifest, tord, vord)
  \o validateTemplateUsage(manifest, tord)
  \o validateNonTemplates(manifest, tord)

(* lines 351-360: the manifest is complete; run the passes and return *)
checkManifest(manifest, errs, validated, tord, vord) ==
  returnManifest(manifest, errs \o manifestPasses(manifest, tord, vord), validated)

(* lines 319-349: resolved is what resolveRole gave for each role kept *)
indexManifest(kept, resolved, errs, validated, tord, vord) ==
  checkManifest([kept EXCEPT !.Roles = [i \in 1..Len(resolved) |-> resolved[i].role],
                             !.rolesByName = indexRoles([i \in 1..Len(resolved) |-> resolved[i].role], <<>>)],
                errs \o Flatten([i \in 1..Len(resolved) |-> resolved[i].errs]),
                validated, tord, vord)

resolveManifest(kept, mappedReleases, errs, validated, tord, vord) ==
  indexManifest(kept, [i \in 1..Len(kept.Roles) |-> resolveRole(kept.Roles[i], kept, mappedReleases)],
                errs, validated, tord, vord)

(* lines 319-361: filtered is what the role-filtering loop left *)
afterFilter(parsed, filtered, mappedReleases, tord, vord) ==
  resolveManifest([parsed EXCEPT !.Roles = filtered.Roles], mappedReleases,
                  filtered.errs, filtered.validated, tord, vord)

(* lines 294-361, once the file is read and parsed and the releases are mapped *)
validateManifest(parsed, mappedReleases, tord, vord) ==
  afterFilter(parsed, filterRoles(parsed.Roles, MakeMapOfVariables(parsed)), mappedReleases, tord, vord)

(* lines 280-361, the releases being mapped *)
parseAndValidate(in, mapped, tord, vord) ==
  IF Len(mapped) = 0 THEN fatalError("release has been loaded more than once")
  ELSE IF in.file = "unparseable" THEN fatalError("yaml")
  ELSE validateManifest([Roles |-> in.doc.Roles,
                         Configuration |-> defaultConfiguration(in.doc.Configuration),
                         rolesByName |-> <<>>],
                        mapped[1], tord, vord)

LoadRoleManifest(in, tord, vord) ==
  IF in.file = "unreadable" THEN fatalError("read")
  ELSE parseAndValidate(in, mapReleases(in.releases, <<>>), tord, vord)

LookupRole(m, roleName) == IF roleName \in DOMAIN m.rolesByName THEN Some(m.rolesByName[roleName]) ELSE Nil

(* SelectRoles as it would be if it returned at the first unknown name *)
SelectRolesFirstMissing(m, roleNames) ==
  IF Len(roleNames) = 0 THEN [roles |-> Some(m.Roles), err |-> Nil]
  ELSE LET missingRoles == SelectSeq(roleNames, LAMBDA roleName : roleName \notin DOMAIN m.rolesByName)
       IN IF Len(missingRoles) > 0 THEN [roles |-> Nil, err |-> Some(<<missingRoles[1]>>)]
          ELSE [roles |-> Some([i \in 1..Len(roleNames) |-> m.rolesByName[roleNames[i]]]), err |-> Nil]

(* SelectRoles: the roles, or the error with the names it lists *)
SelectRoles(m, roleNames) ==
  IF Len(roleNames) = 0 THEN [roles |-> Some(m.Roles), err |-> Nil]
  ELSE LET known == SelectSeq(roleNames, LAMBDA roleName : roleName \in DOMAIN m.rolesByName)
           results == [i \in 1..Len(known) |-> m.rolesByName[known[i]]]
           missingRoles == SelectSeq(roleNames, LAMBDA roleName : roleName \notin DOMAIN m.rolesByName)
       IN IF Len(missingRoles) > 0 THEN [roles |-> Nil, err |-> Some(missingRoles)]
          ELSE [roles |-> Some(results), err |-> Nil]

----------------------------------------------------------------------------
(* Dev-version signatures.  A Go string is the sequence of its bytes.        *)

(* Go's < on strings: bytewise, a proper prefix first *)
LexLess(a, b) ==
  \E i \in 1..(Len(a) + 1) :
    /\ i <= Len(b)
    /\ SubSeq(a, 1, i - 1) = SubSeq(b, 1, i - 1)
    /\ (i > Len(a) \/ a[i] < b[i])

(* sort.Strings (lines 443, 475) on the short slices considered here is an   *)
(* insertion sort: each element moves left while it is less than its         *)
(* neighbour                                                                 *)
RECURSIVE insertString(_, _)
insertString(sorted, x) ==
  IF Len(sorted) > 0 /\ LexLess(x, sorted[Len(sorted)])
  THEN Append(insertString(SubSeq(sorted, 1, Len(sorted) - 1), x), sorted[Len(sorted)])
  ELSE Append(sorted, x)

RECURSIVE sortStringsFrom(_, _)
sortStringsFrom(sorted, rest) ==
  IF Len(rest) = 0 THEN sorted ELSE sortStringsFrom(insertString(sorted, Head(rest)), Tail(rest))

sortStrings(strings) == sortStringsFrom(<<>>, strings)

(* sort.Sort(packages), line 496, the same insertion sort; Packages.Less     *)
(* compares the package names                                                *)
RECURSIVE insertPackage(_, _)
insertPackage(sorted, pkg) ==
  IF Len(sorted) > 0 /\ LexLess(pkg.Name, sorted[Len(sorted)].Name)
  THEN Append(insertPackage(SubSeq(sorted, 1, Len(sorted) - 1), pkg), sorted[Len(sorted)])
  ELSE Append(sorted, pkg)

RECURSIVE sortPackagesFrom(_, _)
sortPackagesFrom(sorted, rest) ==
  IF Len(rest) = 0 THEN sorted ELSE sortPackagesFrom(insertPackage(sorted, Head(rest)), Tail(rest))

sortPackages(packages) == sortPackagesFrom(<<>>, packages)

(* hex.EncodeToString: two lower-case hexadecimal digits for each byte *)
HexDigit(d) == IF d < 10 THEN 48 + d ELSE 87 + d
EncodeToString(bytes) ==
  [i \in 1..(2 * Len(bytes)) |->
     IF i % 2 = 1 THEN HexDigit(bytes[(i + 1) \div 2] \div 16) ELSE HexDigit(bytes[i \div 2] % 16)]

(* sha1 over everything written to the hasher: an injective function of the  *)
(* bytes written, here the bytes themselves                                  *)
sha1Sum(written) == written

(* hex.EncodeToString(hasher.Sum(nil)) *)
Digest(written) == EncodeToString(sha1Sum(written))

(* fmt.Sprintf("%s\n%s", roleSignature, s) *)
appendLine(roleSignature, s) == roleSignature \o <<10>> \o s

(* fmt.Sprintf("%s: %s", k, v) *)
templateEntry(k, v) == k \o <<58, 32>> \o v

(* filepath.IsAbs, filepath.Dir and filepath.Join on clean slash-separated paths *)
IsAbs(path) == Len(path) > 0 /\ path[1] = 47

lastSlash(path, i) == path[i] = 47 /\ \A j \in (i + 1)..Len(path) : path[j] # 47

Dir(path) ==
  IF \A i \in 1..Len(path) : path[i] # 47 THEN <<46>>
  ELSE IF lastSlash(path, 1) THEN <<47>>
  ELSE SubSeq(path, 1, (CHOOSE i \in 1..Len(path) : lastSlash(path, i)) - 1)

Join(dir, elem) ==
  IF dir = <<46>> THEN elem
  ELSE IF dir = <<47>> THEN dir \o elem
  ELSE dir \o <<47>> \o elem

(* GetScriptPaths, lines 413-428: the scripts that are not absolute, each    *)
(* with its path next to the manifest file                                   *)
GetScriptPaths(role) ==
  [script \in {s \in Range(role.EnvironScripts \o role.Scripts \o role.PostConfigScripts) : ~IsAbs(s)} |->
     Join(Dir(role.rolesManifest.manifestFilePath), script)]

(* the file a path names, for os.Open and io.Copy *)
fileAt(files, filename) ==
  IF filename \in DOMAIN files THEN files[filename]
  ELSE [exists |-> FALSE, readable |-> FALSE, content |-> <<>>]

(* GetScriptSignatures, lines 446-460: the loop over the sorted paths.       *)
(* hasher is what was written to the hasher, opened and closed the files     *)
(* opened and closed so far.  Line 454 returns without closing.              *)
RECURSIVE scriptLoop(_, _, _, _, _, _)
scriptFile(scripts, i, hasher, f, files, opened, closed) ==
  IF ~f.exists
  THEN [sig |-> <<>>, err |-> Some("open"), opened |-> opened, closed |-> closed]
  ELSE IF ~f.readable
  THEN [sig |-> <<>>, err |-> Some("read"), opened |-> Append(opened, scripts[i]), closed |-> closed]
  ELSE scriptLoop(scripts, i + 1, hasher \o f.content, files,
                  Append(opened, scripts[i]), Append(closed, scripts[i]))

scriptLoop(scripts, i, hasher, files, opened, closed) ==
  IF i > Len(scripts)
  THEN [sig |-> Digest(hasher), err |-> Nil, opened |-> opened, closed |-> closed]
  ELSE scriptFile(scripts, i, hasher \o scripts[i], fileAt(files, scripts[i]), files, opened, closed)

(* GetScriptSignatures, lines 431-461; sord is the order in which this run   *)
(* walks the map of paths                                                    *)
GetScriptSignatures(role, files, sord) ==
  scriptLoop(sortStrings([i \in 1..Len(sord) |-> GetScriptPaths(role)[sord[i]]]), 1, <<>>, files, <<>>, <<>>)

(* GetTemplateSignatures, lines 464-482; tord is the order in which this run *)
(* walks the role's templates                                                *)
GetTemplateSignatures(role, tord) ==
  [sig |-> Digest(Flatten(sortStrings(
             [i \in 1..Len(tord) |-> templateEntry(tord[i], role.Configuration[1].Templates[1][tord[i]])]))),
   err |-> Nil]

(* lines 491-494 as they would be if the job hashes were sorted first *)
jobLoopSorted(jobs, i, roleSignature, packages) ==
  [roleSignature |-> roleSignature
                     \o Flatten([k \in 1..Len(jobs) |->
                                   <<10>> \o sortStrings([j \in 1..Len(jobs) |-> jobs[j].SHA1])[k]]),
   packages |-> packages \o Flatten([k \in 1..Len(jobs) |-> jobs[k].Packages])]

(* GetRoleDevVersion, lines 491-494: job hashes and packages in list order *)
RECURSIVE jobLoop(_, _, _, _)
jobLoop(jobs, i, roleSignature, packages) ==
  IF i > Len(jobs) THEN [roleSignature |-> roleSignature, packages |-> packages]
  ELSE jobLoop(jobs, i + 1, appendLine(roleSignature, jobs[i].SHA1), packages \o jobs[i].Packages)

(* lines 497-499: the hashes of the sorted packages *)
RECURSIVE packageLoop(_, _, _)
packageLoop(packages, i, roleSignature) ==
  IF i > Len(packages) THEN roleSignature
  ELSE packageLoop(packages, i + 1, appendLine(roleSignature, packages[i].SHA1))

(* lines 517-519 and the error returns of lines 504 and 512; text is         *)
(* roleSignature as it is hashed, packages the sorted packages               *)
hashedVersion(roleSignature, packages, scripts) ==
  [version |-> Digest(roleSignature), err |-> Nil, text |-> roleSignature, packages |-> packages,
   opened |-> scripts.opened, closed |-> scripts.closed]

failedVersion(err, packages, scripts) ==
  [version |-> <<>>, err |-> err, text |-> <<>>, packages |-> packages,
   opened |-> scripts.opened, closed |-> scripts.closed]

(* lines 509-515 *)
withTemplateSignature(roleSignature, packages, scripts, templates) ==
  IF Len(templates.err) > 0 THEN failedVersion(templates.err, packages, scripts)
  ELSE hashedVersion(appendLine(roleSignature, templates.sig), packages, scripts)

withTemplates(role, roleSignature, packages, scripts, tord) ==
  IF Len(role.Configuration) > 0 /\ Len(role.Configuration[1].Templates) > 0
  THEN withTemplateSignature(roleSignature, packages, scripts, GetTemplateSignatures(role, tord))
  ELSE hashedVersion(roleSignature, packages, scripts)

(* lines 501-506 *)
withScripts(role, roleSignature, packages, scripts, tord) ==
  IF Len(scripts.err) > 0 THEN failedVersion(scripts.err, packages, scripts)
  ELSE withTemplates(role, appendLine(roleSignature, scripts.sig), packages, scripts, tord)

(* lines 496-502 *)
withPackages(role, roleSignature, packages, files, sord, tord) ==
  withScripts(role, packageLoop(packages, 1, roleSignature), packages,
              GetScriptSignatures(role, files, sord), tord)

withJobs(role, jobs, files, sord, tord) ==
  withPackages(role, jobs.roleSignature, sortPackages(jobs.packages), files, sord, tord)

(* GetRoleDevVersion, lines 485-520 *)
GetRoleDevVersion(role, files, sord, tord) ==
  withJobs(role, jobLoop(role.Jobs, 1, <<>>, <<>>), files, sord, tord)

----------------------------------------------------------------------------
(* Inputs *)

RoleNames == {"a", "b"}
RoleTypes == {"", RoleTypeBosh, RoleTypeBoshTask, RoleTypeDocker, "other"}

RunOK ==
  [FlightStage |-> FlightStageFlight, HealthCheck |-> Nil, Memory |-> 0, VirtualCPUs |-> 0,
   ExposedPorts |-> <<>>, Environment |-> <<>>]

HealthChecks ==
  {[URL |-> u, Command |-> c, Port |-> p] : u \in {"", "http://h/"}, c \in {<<>>, <<"true">>}, p \in {0, 8080}}

PortOK == [Name |-> "web", Protocol |-> "TCP", External |-> "80", Internal |-> "8080-8090"]

(* run sections that differ from RunOK in one respect *)
RunsPlain == {Nil, Some(RunOK)}
RunsEnv == {Some([RunOK EXCEPT !.Environment = e]) : e \in {<<"A">>, <<"C">>, <<"A", "C">>}}
RunsHealth == {Some([RunOK EXCEPT !.HealthCheck = Some(hc)]) : hc \in HealthChecks}
RunsOther ==
  {Some([RunOK EXCEPT !.FlightStage = ""]), Some([RunOK EXCEPT !.FlightStage = "bogus"]),
   Some([RunOK EXCEPT !.Memory = -1]), Some([RunOK EXCEPT !.VirtualCPUs = -1]),
   Some([RunOK EXCEPT !.ExposedPorts = <<PortOK>>]),
   Some([RunOK EXCEPT !.ExposedPorts = <<[PortOK EXCEPT !.Name = "", !.External = "x"]>>]),
   Some([RunOK EXCEPT !.ExposedPorts = <<PortOK, [PortOK EXCEPT !.Protocol = "ICMP"]>>])}

Job1 == [Name |-> "j1", SHA1 |-> "h1", Properties |-> <<"p1">>, Packages |-> <<>>]
Job2 == [Name |-> "j2", SHA1 |-> "h2", Properties |-> <<"p2", "p1">>, Packages |-> <<>>]
Release1 == [Name |-> "rel", Jobs |-> <<Job1, Job2>>]

RJ(job, release) == [Name |-> job, ReleaseName |-> release]
JobListOK == <<RJ("j1", "rel")>>
JobLists == {<<RJ("j1", "gone"), RJ("j2", "rel")>>, <<RJ("jx", "rel"), RJ("j1", "rel")>>}

MkRole(name, type, run, jobs, conf) ==
  [id |-> 0, Name |-> name, Type |-> type, Run |-> run, JobNameList |-> jobs,
   Configuration |-> conf, Jobs |-> <<>>]

(* the roles of a document: each gets its position as identity *)
Numbered(roles) == [i \in 1..Len(roles) |-> [roles[i] EXCEPT !.id = i]]

Key(p) == <<"properties", p>>
Var(n, private) == [Name |-> n, Private |-> private]

ConfigClean ==
  Some([Variables |-> <<Var("A", FALSE)>>, Templates |-> Some([k \in {Key("p1")} |-> <<TVar("A")>>])])
ConfigDirty ==
  Some([Variables |-> <<Var("B", FALSE), Var("A", FALSE)>>,
        Templates |-> Some([k \in {Key("p1"), Key("p2")} |->
                         IF k = Key("p1") THEN <<TText, TVar("C")>> ELSE <<TText>>])])

MkInput(file, roles, conf, releases) ==
  [file |-> file, doc |-> [Roles |-> Numbered(roles), Configuration |-> conf], releases |-> releases]

CoreRoles ==
  {MkRole(n, t, r, JobListOK, Nil) : n \in RoleNames, t \in RoleTypes, r \in RunsPlain}
  \cup {MkRole("a", "", Some(RunOK), j, Nil) : j \in JobLists}

(* one role whose run section has an environment, a health check or a flaw *)
RichRoles ==
  {MkRole("a", t, r, JobListOK, Nil) : t \in RoleTypes, r \in RunsEnv \cup RunsHealth \cup RunsOther}

InputsLoad ==
  {MkInput("ok", roles, conf, <<Release1>>) :
     roles \in SeqsUpTo(CoreRoles, MaxRoles), conf \in {Nil, ConfigClean, ConfigDirty}}
  \cup {MkInput("ok", <<r>>, ConfigClean, <<Release1>>) : r \in RichRoles}
  \cup {MkInput(f, <<>>, ConfigClean, rs) :
          f \in {"ok", "unreadable", "unparseable"}, rs \in {<<Release1>>, <<Release1, Release1>>}}

(* documents that vary the declared variables and the templates *)
TemplateSamples ==
  {<<TVar("A")>>, <<TText, TVar("B"), TVar("A"), TVar("B")>>, <<TText>>, <<TVar("C"), TOpen>>,
   <<TVar("C"), TVar("IP_ADDRESS"), TVar("C"), TVar("DNS_RECORD_NAME")>>}

GlobalKeys == {Key("p1"), <<"env", "x">>}
TemplateMaps(keys, samples) == UNION {[d -> samples] : d \in SUBSET keys}

VarSamples == {Var(n, private) : n \in {"A", "B"}, private \in BOOLEAN}

OwnTemplateSamples ==
  {[k \in {Key("p1")} |-> <<TVar("B")>>], [k \in {Key("p1")} |-> <<TVar("C"), TOpen>>],
   [k \in {Key("p9")} |-> <<TVar("B")>>]}

RolesVars ==
  {<<>>, <<MkRole("a", RoleTypeDocker, Some(RunOK), JobListOK, Some([Templates |-> Some([k \in {Key("p1")} |-> <<TVar("B")>>])]))>>}
  \cup {<<MkRole("a", "", Some(RunOK), <<RJ("j1", "rel"), RJ("j2", "gone")>>, c)>> :
          c \in {Nil} \cup {Some([Templates |-> Some(m)]) : m \in OwnTemplateSamples}}

InputsVars ==
  {MkInput("ok", roles, Some([Variables |-> vs, Templates |-> Some(ts)]), <<Release1>>) :
     roles \in RolesVars, vs \in SeqsUpTo(VarSamples, MaxVars), ts \in TemplateMaps(GlobalKeys, TemplateSamples)}

InputsSort ==
  {MkInput("ok", <<>>, Some([Variables |-> vs, Templates |-> ts]), <<Release1>>) :
     vs \in SeqsUpTo({Var(n, TRUE) : n \in {"", "A", "B", "C"}}, MaxSorted),
     ts \in {Nil, Some([k \in {Key("p1")} |-> <<TVar("A"), TVar("B"), TVar("C")>>])}}

(* documents for role selection: valid roles, some dropped, some sharing a name *)
InputsSelect ==
  {MkInput("ok", roles, Nil, <<Release1>>) :
     roles \in SeqsUpTo({MkRole(n, t, Some(RunOK), JobListOK, Nil) : n \in RoleNames, t \in {"", RoleTypeDocker}},
                        MaxRoles)}

RequestedNames == RoleNames \cup {"x", "y"}

----------------------------------------------------------------------------
(* Inputs of the dev-version signatures: resolved roles and the files next   *)
(* to the manifest.  Bytes: a 97, b 98, d 100, k 107, m 109, p 112, q 113,   *)
(* s 115, t 116, v 118, 1 49, 2 50, 3 51, / 47.                              *)

Pkg(name, sha1) == [Name |-> name, SHA1 |-> sha1]
PkgP1 == Pkg(<<112>>, <<49>>)
PkgQ2 == Pkg(<<113>>, <<50>>)
PkgP3 == Pkg(<<112>>, <<51>>)

(* jobs as release.LookupJob resolved them; the third has the hash of the first *)
VJob(name, sha1, packages) == [Name |-> name, SHA1 |-> sha1, Packages |-> packages]
JobSamples ==
  {VJob("ja", <<97, 49>>, <<PkgQ2, PkgP1>>), VJob("jb", <<98>>, <<PkgP3>>), VJob("jc", <<97, 49>>, <<PkgP1>>)}

(* script lists (environment, scripts, post-config), the manifest path and   *)
(* the files that exist                                                      *)
File(content) == [exists |-> TRUE, readable |-> TRUE, content |-> content]
Unreadable == [exists |-> TRUE, readable |-> FALSE, content |-> <<>>]
PathDS == <<100, 47, 115>>
PathDT == <<100, 47, 116>>
PathS == <<115>>
PathT == <<116>>
ScriptSetups ==
  {[env |-> <<>>, scripts |-> <<>>, post |-> <<>>, path |-> <<100, 47, 109>>,
    files |-> [p \in {PathDS} |-> File(<<49>>)]],
   [env |-> <<PathT>>, scripts |-> <<<<47, 97>>, PathS>>, post |-> <<PathS>>, path |-> <<100, 47, 109>>,
    files |-> [p \in {PathDS, PathDT} |-> IF p = PathDS THEN File(<<49>>) ELSE File(<<50, 51>>)]],
   [env |-> <<PathS>>, scripts |-> <<>>, post |-> <<PathT>>, path |-> <<109>>,
    files |-> [p \in {PathS, PathT} |-> File(<<49>>)]],
   [env |-> <<PathS>>, scripts |-> <<PathT>>, post |-> <<>>, path |-> <<100, 47, 109>>,
    files |-> [p \in {PathDS} |-> File(<<49>>)]],
   [env |-> <<PathT>>, scripts |-> <<PathS>>, post |-> <<>>, path |-> <<47, 109>>,
    files |-> [p \in {<<47, 115>>, <<47, 116>>} |-> IF p = <<47, 115>> THEN File(<<49>>) ELSE Unreadable]]}

VersionConfigs ==
  {Nil, Some([Templates |-> Nil]),
   Some([Templates |-> Some([k \in {<<107>>, <<107, 49>>} |-> IF k = <<107>> THEN <<118>> ELSE <<>>])])}

VRole(jobs, setup, conf) ==
  [Name |-> "a", Jobs |-> jobs, EnvironScripts |-> setup.env, Scripts |-> setup.scripts,
   PostConfigScripts |-> setup.post, Configuration |-> conf,
   rolesManifest |-> [manifestFilePath |-> setup.path]]

InputsVersion ==
  {[role |-> VRole(jobs, setup, conf), files |-> setup.files] :
     jobs \in SeqsUpTo(JobSamples, MaxJobs), setup \in ScriptSetups, conf \in VersionConfigs}

----------------------------------------------------------------------------
(* Actions *)

NoCall == [names |-> <<>>, roles |-> Nil, err |-> Nil, called |-> FALSE]

NoVersion ==
  [called |-> FALSE, role |-> <<>>, version |-> <<>>, err |-> Nil, text |-> <<>>, packages |-> <<>>,
   opened |-> <<>>, closed |-> <<>>]

InitWith(inputs) ==
  /\ input \in inputs
  /\ pc = "start"
  /\ ret = [manifest |-> Nil, err |-> Nil]
  /\ allErrs = <<>>
  /\ runValidated = <<>>
  /\ sel = NoCall
  /\ vin = <<>>
  /\ last = NoVersion
  /\ prev = NoVersion

(* The call LoadRoleManifest(manifestFilePath, releases).  tord and vord are *)
(* the orders in which this run walks the global template map and the map   *)
(* of unused variables.                                                      *)
Returned(r) ==
  /\ ret' = [manifest |-> r.manifest, err |-> r.err]
  /\ allErrs' = r.allErrs
  /\ runValidated' = r.validated

Load ==
  /\ pc = "start"
  /\ \E tord \in Perms(DOMAIN defaultConfiguration(input.doc.Configuration).Templates) :
       \E vord \in Perms({defaultConfiguration(input.doc.Configuration).Variables[i].Name :
                            i \in 1..Len(defaultConfiguration(input.doc.Configuration).Variables)}) :
         Returned(LoadRoleManifest(input, tord, vord))
  /\ pc' = "loaded"
  /\ UNCHANGED <<input, sel, vin, last, prev>>

SelectReturned(roleNames, r) ==
  sel' = [names |-> roleNames, roles |-> r.roles, err |-> r.err, called |-> TRUE]

(* A call of SelectRoles on the manifest that was loaded *)
CallSelectRoles ==
  /\ pc = "loaded"
  /\ Len(ret.manifest) = 1
  /\ \E roleNames \in SeqsUpTo(RequestedNames, MaxSelect) :
       SelectReturned(roleNames, SelectRoles(ret.manifest[1], roleNames))
  /\ UNCHANGED <<pc, input, ret, allErrs, runValidated, vin, last, prev>>

InitLoad == InitWith(InputsLoad)
NextLoad == Load
SpecLoad == InitLoad /\ [][NextLoad]_vars

InitVars == InitWith(InputsVars)
SpecVars == InitVars /\ [][NextLoad]_vars

InitSelect == InitWith(InputsSelect)
NextSelect == Load \/ CallSelectRoles
SpecSelect == InitSelect /\ [][NextSelect]_vars

InitSort == InitWith(InputsSort)
SpecSort == InitSort /\ [][NextLoad]_vars

(* Calls of GetRoleDevVersion.  vin is a role and the files; each call is on *)
(* that role with its job list in some order, and walks the map of script    *)
(* paths and the templates in some order.                                    *)
InitVersion ==
  /\ vin \in InputsVersion
  /\ last = NoVersion
  /\ prev = NoVersion
  /\ pc = "version"
  /\ input = MkInput("ok", <<>>, Nil, <<>>)
  /\ ret = [manifest |-> Nil, err |-> Nil]
  /\ allErrs = <<>>
  /\ runValidated = <<>>
  /\ sel = NoCall

templateKeys(role) ==
  IF Len(role.Configuration) > 0 /\ Len(role.Configuration[1].Templates) > 0
  THEN DOMAIN role.Configuration[1].Templates[1]
  ELSE {}

VersionReturned(role, r) ==
  /\ prev' = last
  /\ last' = [called |-> TRUE, role |-> role, version |-> r.version, err |-> r.err, text |-> r.text,
              packages |-> r.packages, opened |-> r.opened, closed |-> r.closed]

VersionOf(role) ==
  \E sord \in Perms(DOMAIN GetScriptPaths(role)) :
    \E tord \in Perms(templateKeys(role)) :
      VersionReturned(role, GetRoleDevVersion(role, vin.files, sord, tord))

CallGetRoleDevVersion ==
  /\ pc = "version"
  /\ \E jord \in Perms(1..Len(vin.role.Jobs)) :
       VersionOf([vin.role EXCEPT !.Jobs = [i \in 1..Len(vin.role.Jobs) |-> vin.role.Jobs[jord[i]]]])
  /\ UNCHANGED <<pc, input, ret, allErrs, runValidated, sel, vin>>

NextVersion == CallGetRoleDevVersion
SpecVersion == InitVersion /\ [][NextVersion]_vars

----------------------------------------------------------------------------
(* Role-set signature *)

(* Roles.Less, lines 252-254: strings.Compare of the names is negative *)
rolesLess(a, b) == LexLess(a.Name, b.Name)

(* sort.Sort(roles), line 367, on the short slices considered here: the      *)
(* insertion sort, with Roles.Less and Roles.Swap                            *)
RECURSIVE insertRole(_, _)
insertRole(sorted, role) ==
  IF Len(sorted) > 0 /\ rolesLess(role, sorted[Len(sorted)])
  THEN Append(insertRole(SubSeq(sorted, 1, Len(sorted) - 1), role), sorted[Len(sorted)])
  ELSE Append(sorted, role)

RECURSIVE sortRolesFrom(_, _)
sortRolesFrom(sorted, rest) ==
  IF Len(rest) = 0 THEN sorted ELSE sortRolesFrom(insertRole(sorted, Head(rest)), Tail(rest))

(* the role list as it would be if it were hashed in the order given *)
sortRolesNot(roles) == roles

sortRoles(roles) == sortRolesFrom(<<>>, roles)

(* the order in which a run walks a map with these keys: one order, or with  *)
(* flip the opposite one                                                     *)
mapOrder(keys, flip) ==
  IF flip
  THEN [i \in 1..Cardinality(keys) |-> (CHOOSE p \in Perms(keys) : TRUE)[Cardinality(keys) + 1 - i]]
  ELSE CHOOSE p \in Perms(keys) : TRUE

(* GetRoleManifestDevPackageVersion, lines 372-378: the loop over the sorted *)
(* roles; hasher is what was written to the hasher, flip[i] tells how the    *)
(* i-th call of GetRoleDevVersion walks its maps                             *)
RECURSIVE roleVersionLoop(_, _, _, _, _)
roleVersionStep(roles, i, hasher, v, files, flip) ==
  IF Len(v.err) > 0 THEN [version |-> <<>>, err |-> v.err]
  ELSE roleVersionLoop(roles, i + 1, hasher \o v.version, files, flip)

roleVersionLoop(roles, i, hasher, files, flip) ==
  IF i > Len(roles) THEN [version |-> Digest(hasher), err |-> Nil]
  ELSE roleVersionStep(roles, i, hasher,
                       GetRoleDevVersion(roles[i], files,
                                         mapOrder(DOMAIN GetScriptPaths(roles[i]), flip[i]),
                                         mapOrder(templateKeys(roles[i]), flip[i])),
                       files, flip)

(* GetRoleManifestDevPackageVersion, lines 364-381 *)
GetRoleManifestDevPackageVersion(roles, extra, files, flip) ==
  roleVersionLoop(sortRoles(roles), 1, extra, files, flip)

(* Inputs: roles of one manifest at /m, where /s can be read, /t cannot and  *)
(* /u does not exist.  Names a, ab, b; salts empty and x.                    *)
ManifestPath == <<47, 109>>
ManifestFiles ==
  [p \in {<<47, 115>>, <<47, 116>>} |-> IF p = <<47, 115>> THEN File(<<49>>) ELSE Unreadable]
ManifestScripts(env, scripts) ==
  [env |-> env, scripts |-> scripts, post |-> <<>>, path |-> ManifestPath, files |-> ManifestFiles]
JobA == VJob("ja", <<97, 49>>, <<PkgQ2, PkgP1>>)
JobB == VJob("jb", <<98>>, <<PkgP3>>)
TwoTemplates == Some([Templates |-> Some([k \in {<<107>>, <<107, 49>>} |-> IF k = <<107>> THEN <<118>> ELSE <<>>])])
RoleQuiet == VRole(<<JobB>>, ManifestScripts(<<>>, <<>>), Nil)
RoleScripted == VRole(<<JobA>>, ManifestScripts(<<PathS>>, <<>>), TwoTemplates)
RoleUnreadable == VRole(<<JobB, JobA>>, ManifestScripts(<<PathT>>, <<PathS>>), Nil)
RoleMissing == VRole(<<JobB>>, ManifestScripts(<<>>, <<<<117>>>>), Nil)
Named(role, name) == [role EXCEPT !.Name = name]
NamedRoles ==
  {Named(RoleQuiet, <<97>>), Named(RoleQuiet, <<98>>), Named(RoleScripted, <<97, 98>>),
   Named(RoleScripted, <<97>>), Named(RoleUnreadable, <<98>>), Named(RoleMissing, <<97, 98>>)}
Salts == {<<>>, <<120>>}

(* role lists, one for each way of ordering it *)
InputsManifestVersion ==
  {[roles |-> roles, files |-> ManifestFiles, extra |-> extra] :
     roles \in {s \in SeqsUpTo(NamedRoles, MaxRoles) :
                  \A i \in 1..(Len(s) - 1) : ~rolesLess(s[i + 1], s[i])},
     extra \in Salts}

InitManifestVersion ==
  /\ vin \in InputsManifestVersion
  /\ last = NoVersion
  /\ prev = NoVersion
  /\ pc = "manifest version"
  /\ input = MkInput("ok", <<>>, Nil, <<>>)
  /\ ret = [manifest |-> Nil, err |-> Nil]
  /\ allErrs = <<>>
  /\ runValidated = <<>>
  /\ sel = NoCall

ManifestVersionReturned(roles, r) ==
  /\ prev' = last
  /\ last' = [called |-> TRUE, roles |-> roles, extra |-> vin.extra, version |-> r.version, err |-> r.err]

ManifestVersionOf(roles) ==
  \E flip \in [1..Len(roles) -> BOOLEAN] :
    ManifestVersionReturned(roles, GetRoleManifestDevPackageVersion(roles, vin.extra, vin.files, flip))

(* A call of GetRoleManifestDevPackageVersion on the roles in some order *)
CallGetRoleManifestDevPackageVersion ==
  /\ pc = "manifest version"
  /\ \E rord \in Perms(1..Len(vin.roles)) :
       ManifestVersionOf([i \in 1..Len(vin.roles) |-> vin.roles[rord[i]]])
  /\ UNCHANGED <<pc, input, ret, allErrs, runValidated, sel, vin>>

NextManifestVersion == CallGetRoleManifestDevPackageVersion
SpecManifestVersion == InitManifestVersion /\ [][NextManifestVersion]_vars

----------------------------------------------------------------------------
(* What the versioning operations write.  mem is the memory: the arrays      *)
(* behind the slices, by number.  A slice is an array, a length and a        *)
(* capacity; a nil or empty slice has no array.  A *Role or *Job is the      *)
(* record itself, its slices being slices into mem.                          *)

Slice(arr, len) == [arr |-> arr, len |-> len, cap |-> len]
NilSlice == [arr |-> 0, len |-> 0, cap |-> 0]
elems(mem, s) == IF s.len = 0 THEN <<>> ELSE SubSeq(mem[s.arr], 1, s.len)

(* append(s, es...): in place while the capacity allows, else into a new     *)
(* array, here of just the length needed                                     *)
appendSlice(mem, s, es) ==
  IF Len(es) = 0 THEN [mem |-> mem, slice |-> s]
  ELSE IF s.len + Len(es) <= s.cap
  THEN [mem |-> [mem EXCEPT ![s.arr] = SubSeq(@, 1, s.len) \o es \o SubSeq(@, s.len + Len(es) + 1, Len(@))],
        slice |-> [s EXCEPT !.len = s.len + Len(es)]]
  ELSE [mem |-> Append(mem, elems(mem, s) \o es), slice |-> Slice(Len(mem) + 1, s.len + Len(es))]

(* sort.Sort swaps the elements of the slice it is given *)
sortPackagesInPlace(mem, s) ==
  IF s.len = 0 THEN mem
  ELSE [mem EXCEPT ![s.arr] = sortPackages(SubSeq(@, 1, s.len)) \o SubSeq(@, s.len + 1, Len(@))]

sortRolesInPlace(mem, s) ==
  IF s.len = 0 THEN mem
  ELSE [mem EXCEPT ![s.arr] = sortRoles(SubSeq(@, 1, s.len)) \o SubSeq(@, s.len + 1, Len(@))]

(* the role with the values its slices hold *)
valueJob(mem, job) == [job EXCEPT !.Packages = elems(mem, job.Packages)]
valueRole(mem, role) ==
  [role EXCEPT !.Jobs = [j \in 1..role.Jobs.len |-> valueJob(mem, mem[role.Jobs.arr][j])]]

(* GetRoleDevVersion, lines 487-496: packages starts nil, takes the packages *)
(* of each job by append, and is sorted                                      *)
RECURSIVE collectPackages(_, _, _, _)
collectNext(jobs, i, appended) == collectPackages(appended.mem, jobs, i + 1, appended.slice)

collectPackages(mem, jobs, i, packages) ==
  IF i > Len(jobs) THEN [mem |-> mem, slice |-> packages]
  ELSE collectNext(jobs, i, appendSlice(mem, packages, elems(mem, jobs[i].Packages)))

sortCollected(collected) == sortPackagesInPlace(collected.mem, collected.slice)

(* GetRoleDevVersion, lines 485-520: the memory it leaves and what it returns *)
GetRoleDevVersionIn(mem, role, files, sord, tord) ==
  [mem |-> sortCollected(collectPackages(mem, elems(mem, role.Jobs), 1, NilSlice)),
   result |-> GetRoleDevVersion(valueRole(mem, role), files, sord, tord)]

(* line 366 as it would be if the roles were not copied *)
copyRolesNot(mem, roles) == [mem |-> mem, slice |-> roles]

(* line 366: roles = append(Roles{}, roles...) *)
copyRoles(mem, roles) == appendSlice(mem, NilSlice, elems(mem, roles))

(* line 367 *)
sortedCopy(copy) == [mem |-> sortRolesInPlace(copy.mem, copy.slice), slice |-> copy.slice]

(* lines 372-380: the loop over the sorted copy *)
RECURSIVE rolesLoopIn(_, _, _, _, _, _)
rolesStepIn(roles, i, hasher, v, files, flip) ==
  IF Len(v.result.err) > 0 THEN [mem |-> v.mem, version |-> <<>>, err |-> v.result.err]
  ELSE rolesLoopIn(v.mem, roles, i + 1, hasher \o v.result.version, files, flip)

rolesLoopIn(mem, roles, i, hasher, files, flip) ==
  IF i > Len(roles) THEN [mem |-> mem, version |-> Digest(hasher), err |-> Nil]
  ELSE rolesStepIn(roles, i, hasher,
                   GetRoleDevVersionIn(mem, roles[i], files,
                                       mapOrder(DOMAIN GetScriptPaths(roles[i]), flip),
                                       mapOrder(templateKeys(roles[i]), flip)),
                   files, flip)

withCopy(copy, r) == [mem |-> r.mem, version |-> r.version, err |-> r.err, copy |-> copy]

versionOfCopy(sorted, extra, files, flip) ==
  withCopy(sorted.slice, rolesLoopIn(sorted.mem, elems(sorted.mem, sorted.slice), 1, extra, files, flip))

(* GetRoleManifestDevPackageVersion, lines 364-381: the memory it leaves,    *)
(* what it returns, and the slice it sorted                                  *)
GetRoleManifestDevPackageVersionIn(mem, roles, extra, files, flip) ==
  versionOfCopy(sortedCopy(copyRoles(mem, roles)), extra, files, flip)

(* SelectRoles, lines 389-410: m.Roles itself for no name (line 392), else a *)
(* slice of its own, built by append                                         *)
selectedIn(mem, r) ==
  IF Len(r.err) > 0 THEN [mem |-> mem, roles |-> NilSlice, err |-> r.err]
  ELSE [mem |-> Append(mem, r.roles[1]), roles |-> Slice(Len(mem) + 1, Len(r.roles[1])), err |-> Nil]

SelectRolesIn(mem, manifest, roleNames) ==
  IF Len(roleNames) = 0 THEN [mem |-> mem, roles |-> manifest, err |-> Nil]
  ELSE selectedIn(mem, SelectRoles([Roles |-> elems(mem, manifest),
                                    rolesByName |-> indexRoles(elems(mem, manifest), <<>>)], roleNames))

(* Inputs: the memory of a loaded manifest: array 1 the manifest's roles,    *)
(* then each role's jobs, then each job's packages                           *)
jobsBefore(roles, i) == Len(Flatten([k \in 1..(i - 1) |-> roles[k].Jobs]))
heapJob(roles, i, j) ==
  [roles[i].Jobs[j] EXCEPT !.Packages =
     Slice(1 + Len(roles) + jobsBefore(roles, i) + j, Len(roles[i].Jobs[j].Packages))]
heapRole(roles, i) == [roles[i] EXCEPT !.Jobs = Slice(1 + i, Len(roles[i].Jobs))]
Heap(roles) ==
  <<[i \in 1..Len(roles) |-> heapRole(roles, i)]>>
  \o [i \in 1..Len(roles) |-> [j \in 1..Len(roles[i].Jobs) |-> heapJob(roles, i, j)]]
  \o Flatten([i \in 1..Len(roles) |-> [j \in 1..Len(roles[i].Jobs) |-> roles[i].Jobs[j].Packages]])

InputsFrame ==
  {[mem |-> Heap(roles), manifest |-> Slice(1, Len(roles)), files |-> ManifestFiles, extra |-> <<120>>] :
     roles \in {s \in SeqsUpTo(NamedRoles, MaxRoles) :
                  \A i, j \in 1..Len(s) : i # j => s[i].Name # s[j].Name}}

InitFrame ==
  /\ vin \in InputsFrame
  /\ last = NoVersion
  /\ prev = NoVersion
  /\ pc = "frame"
  /\ input = MkInput("ok", <<>>, Nil, <<>>)
  /\ ret = [manifest |-> Nil, err |-> Nil]
  /\ allErrs = <<>>
  /\ runValidated = <<>>
  /\ sel = NoCall

(* the arrays made during a call are garbage once it has returned *)
FrameReturned(op, passed, before, copy, after, version, err) ==
  /\ last' = [called |-> TRUE, op |-> op, passed |-> passed, before |-> before, copy |-> copy,
              after |-> after, version |-> version, err |-> err]
  /\ vin' = [vin EXCEPT !.mem = SubSeq(after, 1, Len(vin.mem))]

VersionedSelection(selected, r) ==
  FrameReturned("manifest", selected.roles, selected.mem, r.copy, r.mem, r.version, r.err)

VersionOfSelection(selected, flip) ==
  /\ Len(selected.err) = 0
  /\ VersionedSelection(selected,
       GetRoleManifestDevPackageVersionIn(selected.mem, selected.roles, vin.extra, vin.files, flip))

(* SelectRoles, then GetRoleManifestDevPackageVersion on the roles it gave *)
CallVersionOfSelection ==
  /\ pc = "frame"
  /\ \E roleNames \in SeqsUpTo({<<97>>, <<98>>}, MaxSelect) : \E flip \in BOOLEAN :
       VersionOfSelection(SelectRolesIn(vin.mem, vin.manifest, roleNames), flip)
  /\ UNCHANGED <<pc, input, ret, allErrs, runValidated, sel, prev>>

VersionedRole(r) == FrameReturned("role", NilSlice, vin.mem, NilSlice, r.mem, r.result.version, r.result.err)

(* GetRoleDevVersion on a role of the manifest *)
CallVersionOfRole ==
  /\ pc = "frame"
  /\ \E i \in 1..vin.manifest.len : \E flip \in BOOLEAN :
       VersionedRole(GetRoleDevVersionIn(vin.mem, vin.mem[vin.manifest.arr][i], vin.files,
                                         mapOrder(DOMAIN GetScriptPaths(vin.mem[vin.manifest.arr][i]), flip),
                                         mapOrder(templateKeys(vin.mem[vin.manifest.arr][i]), flip)))
  /\ UNCHANGED <<pc, input, ret, allErrs, runValidated, sel, prev>>

NextFrame == CallVersionOfSelection \/ CallVersionOfRole
SpecFrame == InitFrame /\ [][NextFrame]_vars


----------------------------------------------------------------------------
(* The properties are stated over the input document itself                *)

Validated == pc = "loaded" /\ (Len(ret.err) = 0 \/ ret.err[1].kind = "validation")
Succeeded == pc = "loaded" /\ Len(ret.manifest) = 1

DocRoles == input.doc.Roles
DocConf == defaultConfiguration(input.doc.Configuration)
DocVars == DocConf.Variables
DeclaredNames == {DocVars[i].Name : i \in 1..Len(DocVars)}
Findings == Range(allErrs)

WellFormed(t) == \A i \in 1..Len(t) : t[i] # TOpen
Refs(t) == {t[i][2] : i \in {j \in 1..Len(t) : Len(t[j]) = 3}}

JobsOfRelease(name) ==
  UNION {Range(input.releases[i].Jobs) : i \in {j \in 1..Len(input.releases) : input.releases[j].Name = name}}
Resolves(rj) == \E job \in JobsOfRelease(rj.ReleaseName) : job.Name = rj.Name

OwnTemplates(role) ==
  IF Len(role.Configuration) = 0 \/ Len(role.Configuration[1].Templates) = 0
  THEN <<>> ELSE role.Configuration[1].Templates[1]
MergedTemplate(role, k) == IF k \in DOMAIN OwnTemplates(role) THEN OwnTemplates(role)[k] ELSE DocConf.Templates[k]

(* the templates the usage passes scan: per surviving role, the merged       *)
(* template of each property of each resolved job; and every global template *)
Survivors == {i \in 1..Len(DocRoles) : DocRoles[i].Type # RoleTypeDocker}
ResolvedJobs(role) ==
  {job \in UNION {JobsOfRelease(rj.ReleaseName) : rj \in Range(role.JobNameList)} :
     \E rj \in Range(role.JobNameList) : job \in JobsOfRelease(rj.ReleaseName) /\ job.Name = rj.Name}
ScannedKeys(role) ==
  {Key(p) : p \in UNION {Range(job.Properties) : job \in ResolvedJobs(role)}}
  \cap (DOMAIN OwnTemplates(role) \cup DOMAIN DocConf.Templates)
RoleScanned == UNION {{MergedTemplate(DocRoles[r], k) : k \in ScannedKeys(DocRoles[r])} : r \in Survivors}
GlobalScanned == {DocConf.Templates[k] : k \in DOMAIN DocConf.Templates}
Scanned == {t \in RoleScanned \cup GlobalScanned : WellFormed(t)}
Referenced == UNION {Refs(t) : t \in Scanned}

(* a finding of each pass that the document calls for *)
UnknownTypeRoles == {i \in 1..Len(DocRoles) : DocRoles[i].Type \notin RoleTypes \ {"other"}}
RunCheckedRoles == {i \in 1..Len(DocRoles) : DocRoles[i].Type \notin {RoleTypeBosh, RoleTypeBoshTask}}
UnresolvedJobs ==
  UNION {{<<DocRoles[i].Name, rj.Name>> : rj \in {x \in Range(DocRoles[i].JobNameList) : ~Resolves(x)}} :
           i \in Survivors}
UnsortedPairs == {i \in 2..Len(DocVars) : StrLess(DocVars[i].Name, DocVars[i - 1].Name)}
ConstantTemplates == {k \in DOMAIN DocConf.Templates : WellFormed(DocConf.Templates[k]) /\ Refs(DocConf.Templates[k]) = {}}
UndeclaredNames == Referenced \ (DeclaredNames \cup {"IP_ADDRESS", "DNS_RECORD_NAME"})
UnusedNames == {n \in DeclaredNames \ Referenced : ~MakeMapOfVariables([Configuration |-> DocConf])[n].Private}

HasFinding(kind, field) == \E e \in Findings : e.kind = kind /\ e.field = field

CalledFor ==
  /\ \A i \in UnknownTypeRoles : HasFinding("Invalid", <<"roles", DocRoles[i].Name, "type">>)
  /\ \A i \in RunCheckedRoles : Len(DocRoles[i].Run) = 0 => HasFinding("Required", <<"roles", DocRoles[i].Name, "run">>)
  /\ \A u \in UnresolvedJobs : HasFinding("Invalid", <<"roles", u[1], "jobs", u[2]>>)
  /\ \A i \in UnsortedPairs :
       \E e \in Findings : e.field = <<"configuration", "variables">> /\ e.value = <<DocVars[i - 1].Name>>
  /\ \A n \in UnusedNames : \E e \in Findings : e.value = <<"No templates using", n>>
  /\ \A n \in UndeclaredNames : \E e \in Findings : e.kind = "NotFound" /\ Len(e.value) = 2 /\ e.value[2] = n
  /\ \A k \in ConstantTemplates : \E e \in Findings : e.detail = <<"Using as a constant">> \o k

NothingCalledFor ==
  /\ UnknownTypeRoles = {} /\ UnresolvedJobs = {} /\ UnsortedPairs = {}
  /\ UnusedNames = {} /\ UndeclaredNames = {} /\ ConstantTemplates = {}
  /\ \A i \in RunCheckedRoles : validateRoleRun(DocRoles[i], MakeMapOfVariables([Configuration |-> DocConf])).errs = <<>>

----------------------------------------------------------------------------
(* C1: once the file is read and parsed, LoadRoleManifest returns a manifest *)
(* exactly when no pass has a finding; otherwise it returns no manifest and  *)
(* one error holding every finding, and every finding the document calls     *)
(* for is in it, whatever the earlier passes found.                          *)
C1_AllFindingsOrManifest ==
  Validated =>
    /\ Len(ret.manifest) = 1 <=> allErrs = <<>>
    /\ Len(ret.manifest) = 1 <=> NothingCalledFor
    /\ Len(ret.manifest) = 1 <=> Len(ret.err) = 0
    /\ Len(ret.err) = 1 => ret.err[1].findings = allErrs
    /\ CalledFor

C1_Witness ==
  /\ Validated /\ Len(ret.manifest) = 0
  /\ UnknownTypeRoles # {} /\ UnresolvedJobs # {} /\ UnsortedPairs # {}
  /\ UnusedNames # {} /\ UndeclaredNames # {} /\ ConstantTemplates # {}
  /\ \E i \in RunCheckedRoles : Len(DocRoles[i].Run) = 0

----------------------------------------------------------------------------
(* C2: every role of the document, whatever its type, goes through           *)
(* validateRoleRun exactly once, so a role without a run section makes the   *)
(* load fail with a finding for that role.                                   *)
C2_EveryRoleRunValidatedOnce ==
  Validated =>
    \A i \in 1..Len(DocRoles) :
      /\ Count(runValidated, LAMBDA id : id = DocRoles[i].id) = 1
      /\ Len(DocRoles[i].Run) = 0 =>
           ~Succeeded /\ HasFinding("Required", <<"roles", DocRoles[i].Name, "run">>)

(* C3: a role of type empty, bosh or bosh-task with a non-empty run          *)
(* environment makes the load fail with a Forbidden finding for run.env.     *)
C3_NonDockerEnvironmentForbidden ==
  Validated =>
    \A i \in 1..Len(DocRoles) :
      (/\ DocRoles[i].Type \in {"", RoleTypeBosh, RoleTypeBoshTask}
       /\ Len(DocRoles[i].Run) = 1
       /\ Len(DocRoles[i].Run[1].Environment) > 0)
      => ~Succeeded /\ HasFinding("Forbidden", <<"roles", DocRoles[i].Name, "run", "env">>)

(* C4: in a manifest that was returned the role names are pairwise distinct  *)
(* and LookupRole(r.Name) is r for every role r of the list.                 *)
C4_NamesUniqueAndIndexed ==
  Succeeded =>
    LET m == ret.manifest[1]
    IN /\ \A i, j \in 1..Len(m.Roles) : i # j => m.Roles[i].Name # m.Roles[j].Name
       /\ \A i \in 1..Len(m.Roles) : LookupRole(m, m.Roles[i].Name) = Some(m.Roles[i])

(* C7: a health check is accepted exactly when one of url, command and port  *)
(* is set: with none or several the load fails with a health-check finding,  *)
(* with exactly one there is no health-check finding.                        *)
Mechanisms(hc) ==
  Cardinality({c \in {"url", "command", "port"} :
                 \/ c = "url" /\ hc.URL # ""
                 \/ c = "command" /\ Len(hc.Command) > 0
                 \/ c = "port" /\ hc.Port # 0})
WithHealthCheck == {i \in 1..Len(DocRoles) : Len(DocRoles[i].Run) = 1 /\ Len(DocRoles[i].Run[1].HealthCheck) = 1}
C7_HealthCheckExactlyOne ==
  Validated =>
    \A i \in WithHealthCheck :
      /\ Mechanisms(DocRoles[i].Run[1].HealthCheck[1]) # 1 =>
           ~Succeeded /\ HasFinding("Invalid", <<"roles", DocRoles[i].Name, "run", "healthcheck">>)
      /\ (\A j \in WithHealthCheck :
            DocRoles[j].Name = DocRoles[i].Name => Mechanisms(DocRoles[j].Run[1].HealthCheck[1]) = 1)
         => ~HasFinding("Invalid", <<"roles", DocRoles[i].Name, "run", "healthcheck">>)

----------------------------------------------------------------------------
(* C8: the sorting pass has one finding per adjacent pair of variables whose *)
(* second name is strictly smaller than the first, naming both names; a list *)
(* sorted ascending (equal neighbours included) has none, and an unsorted    *)
(* list fails the load.                                                      *)
SortingFinding(e) == e.kind = "Invalid" /\ e.field = <<"configuration", "variables">>
C8_OneFindingPerUnsortedPair ==
  Validated =>
    /\ Count(allErrs, SortingFinding) = Cardinality(UnsortedPairs)
    /\ \A i \in UnsortedPairs :
         Count(allErrs, LAMBDA e : /\ SortingFinding(e)
                                   /\ e.value = <<DocVars[i - 1].Name>>
                                   /\ e.detail = <<"Does not sort before", DocVars[i].Name>>)
         = Cardinality({j \in UnsortedPairs : DocVars[j - 1].Name = DocVars[i - 1].Name
                                               /\ DocVars[j].Name = DocVars[i].Name})
    /\ UnsortedPairs # {} => ~Succeeded

C8_Witness ==
  /\ Validated /\ Len(DocVars) = 3
  /\ 2 \notin UnsortedPairs /\ 3 \in UnsortedPairs
  /\ DocVars[1].Name # DocVars[2].Name
  /\ Count(allErrs, SortingFinding) = 1

(* C5: the usage pass has exactly one "unused" finding for each declared     *)
(* variable that is not private and that no well-formed scanned template     *)
(* references, and none for a private or a referenced variable; leaving the  *)
(* scan early changes nothing.  A variable is the entry of its name in the   *)
(* map of declared variables.                                                *)
UnusedFinding(e, n) == e.kind = "NotFound" /\ e.value = <<"No templates using", n>>
UndeclaredFinding(e, n) ==
  /\ e.kind = "NotFound"
  /\ e.field \in {<<"configuration", "variables">>, <<"configuration", "templates">>}
  /\ e.value \in {<<"No declaration of", n>>, <<"No variable declaration of", n>>}
C6_OneUndeclaredFindingPerName ==
  Validated =>
    \A n \in Range(NameOrder) :
      Count(allErrs, LAMBDA e : UndeclaredFinding(e, n)) = IF n \in UndeclaredNames THEN 1 ELSE 0

C6_Witness ==
  /\ Validated
  /\ "C" \in UndeclaredNames
  /\ Cardinality({t \in Scanned : "C" \in Refs(t)}) >= 1
  /\ \E t \in RoleScanned : WellFormed(t) /\ "B" \in Refs(t) /\ "B" \in UndeclaredNames
  /\ \E t \in GlobalScanned : WellFormed(t) /\ "B" \in Refs(t)
  /\ Count(allErrs, LAMBDA e : UndeclaredFinding(e, "B")) = 1
  /\ "IP_ADDRESS" \in Referenced

----------------------------------------------------------------------------
(* C9: SelectRoles with no name returns the manifest's roles in manifest     *)
(* order; with names that are all known, the named roles in the order asked; *)
(* with an unknown name, no roles and an error listing the unknown names,    *)
(* all of them and only them, in the order asked.                            *)
KnownName(n) == \E i \in 1..Len(ret.manifest[1].Roles) : ret.manifest[1].Roles[i].Name = n
C9_SelectRoles ==
  sel.called =>
    LET m == ret.manifest[1]
        unknown == SelectSeq(sel.names, LAMBDA n : ~KnownName(n))
    IN /\ Len(sel.names) = 0 => sel.roles = Some(m.Roles) /\ sel.err = Nil
       /\ (Len(sel.names) > 0 /\ unknown = <<>>) =>
            /\ sel.err = Nil
            /\ Len(sel.roles) = 1
            /\ Len(sel.roles[1]) = Len(sel.names)
            /\ \A i \in 1..Len(sel.names) :
                 sel.roles[1][i].Name = sel.names[i] /\ sel.roles[1][i] \in Range(m.Roles)
       /\ unknown # <<>> => sel.roles = Nil /\ sel.err = Some(unknown)

C9_Witness ==
  /\ sel.called
  /\ Len(ret.manifest[1].Roles) = 2
  /\ sel.names = <<"y", "x">>
  /\ sel.err = Some(<<"y", "x">>)

----------------------------------------------------------------------------
JobHashes(role) == [i \in 1..Len(role.Jobs) |-> role.Jobs[i].SHA1]
DistinctHashes(role) ==
  \A i, j \in 1..Len(role.Jobs) : i # j => role.Jobs[i].SHA1 # role.Jobs[j].SHA1
DifferOnlyInJobOrder(r1, r2) ==
  /\ [r1 EXCEPT !.Jobs = <<>>] = [r2 EXCEPT !.Jobs = <<>>]
  /\ Len(r1.Jobs) = Len(r2.Jobs)
  /\ \E p \in Perms(1..Len(r1.Jobs)) : r2.Jobs = [i \in 1..Len(r1.Jobs) |-> r1.Jobs[p[i]]]
  /\ r1.Jobs # r2.Jobs
AllPackages(role) == Flatten([i \in 1..Len(role.Jobs) |-> role.Jobs[i].Packages])
SortedByName(packages) ==
  \A i \in 1..(Len(packages) - 1) : ~LexLess(packages[i + 1].Name, packages[i].Name)
SameElements(s, t) ==
  /\ Len(s) = Len(t)
  /\ \A x \in Range(s) : Count(s, LAMBDA e : e = x) = Count(t, LAMBDA e : e = x)
LinesOf(ss) == Flatten([i \in 1..Len(ss) |-> <<10>> \o ss[i]])
StartsWith(s, prefix) == Len(prefix) <= Len(s) /\ SubSeq(s, 1, Len(prefix)) = prefix

(* C10: the digest being injective, two computations of a role's signature   *)
(* on the same jobs, packages, script files and templates give the same      *)
(* result; two roles that differ only in the order of their job lists, the   *)
(* jobs having pairwise distinct hashes, get different signatures; the       *)
(* hashed text starts with the job hashes in declared order followed by the  *)
(* hashes of all the jobs' packages in ascending order of package name.      *)
C10_RoleSignatureDeterministicAndOrderSensitive ==
  (last.called /\ prev.called) =>
    /\ last.role = prev.role => (last.version = prev.version /\ last.err = prev.err)
    /\ (/\ DifferOnlyInJobOrder(prev.role, last.role)
        /\ DistinctHashes(last.role)
        /\ Len(last.err) = 0 /\ Len(prev.err) = 0) => last.version # prev.version
    /\ Len(last.err) = 0 =>
         /\ last.version = Digest(last.text)
         /\ SortedByName(last.packages)
         /\ SameElements(last.packages, AllPackages(last.role))
         /\ StartsWith(last.text,
                       LinesOf(JobHashes(last.role)
                               \o [i \in 1..Len(last.packages) |-> last.packages[i].SHA1]))

C10_Witness ==
  /\ last.called /\ prev.called
  /\ DifferOnlyInJobOrder(prev.role, last.role)
  /\ DistinctHashes(last.role)
  /\ Len(last.err) = 0 /\ Len(prev.err) = 0
  /\ last.version # prev.version
  /\ Len(last.packages) >= 3
  /\ Len(last.closed) = 2
  /\ templateKeys(last.role) # {}

----------------------------------------------------------------------------
DistinctNames(roles) == \A i, j \in 1..Len(roles) : i # j => roles[i].Name # roles[j].Name
SameRoles(r1, r2) ==
  Len(r1) = Len(r2) /\ \E p \in Perms(1..Len(r1)) : r2 = [i \in 1..Len(r1) |-> r1[p[i]]]
(* a role's own signature, however its maps are walked *)
OwnVersion(role) ==
  GetRoleDevVersion(role, vin.files, mapOrder(DOMAIN GetScriptPaths(role), FALSE),
                    mapOrder(templateKeys(role), TRUE))
(* the role at position k when the names, all distinct, are in ascending order *)
NameRank(roles, role) == 1 + Cardinality({j \in 1..Len(roles) : LexLess(roles[j].Name, role.Name)})
RoleOfRank(roles, k) == roles[CHOOSE i \in 1..Len(roles) : NameRank(roles, roles[i]) = k]
Failing(roles) == {i \in 1..Len(roles) : Len(OwnVersion(roles[i]).err) > 0}

(* C11: for one salt and roles of pairwise distinct names, two calls of      *)
(* GetRoleManifestDevPackageVersion on two orderings of the roles return the *)
(* same; when every role has a signature the result is the digest of the     *)
(* salt followed by the roles' signatures in ascending order of role name;   *)
(* when some role's signature fails the result is the empty string with the  *)
(* error of a failing role.                                                  *)
C11_RoleSetSignature ==
  (pc = "manifest version" /\ last.called /\ DistinctNames(last.roles)) =>
    /\ (prev.called /\ SameRoles(prev.roles, last.roles) /\ prev.extra = last.extra) =>
         (last.version = prev.version /\ last.err = prev.err)
    /\ Failing(last.roles) = {} =>
         /\ last.err = Nil
         /\ last.version =
              Digest(last.extra
                     \o Flatten([k \in 1..Len(last.roles) |-> OwnVersion(RoleOfRank(last.roles, k)).version]))
    /\ Failing(last.roles) # {} =>
         /\ last.version = <<>>
         /\ \E i \in Failing(last.roles) : last.err = OwnVersion(last.roles[i]).err

C11_Witness ==
  /\ pc = "manifest version" /\ last.called /\ prev.called
  /\ DistinctNames(last.roles)
  /\ Len(last.roles) = 2
  /\ last.roles # prev.roles
  /\ rolesLess(last.roles[2], last.roles[1])
  /\ Failing(last.roles) = {}
  /\ Len(last.roles[1].Jobs) > 0 /\ Len(last.roles[2].Jobs) > 0
  /\ last.roles[1].Jobs # last.roles[2].Jobs
  /\ last.extra # <<>>
  /\ last.version = prev.version
  /\ Len(last.version) > 0

----------------------------------------------------------------------------
Ids(roles) == [i \in 1..Len(roles) |-> roles[i].id]
NotDocker(roles) == SelectSeq(roles, LAMBDA r : r.Type # RoleTypeDocker)
Filtered == filterRoles(DocRoles, MakeMapOfVariables([Configuration |-> DocConf])).Roles

(* C12: the role list the filtering loop leaves is the document's role list  *)
(* without its docker roles, the others in their order and none else gone;   *)
(* the loop visits every role of the document once, from the last to the     *)
(* first; in a manifest that loaded every role is of type bosh or bosh-task, *)
(* a role without a type being of type bosh.                                 *)
C12_FilterLoopKeepsOrder ==
  Validated =>
    /\ Ids(Filtered) = Ids(NotDocker(DocRoles))
    /\ visitLoop(Len(DocRoles), DocRoles, <<>>) = [k \in 1..Len(DocRoles) |-> Len(DocRoles) + 1 - k]
    /\ Succeeded =>
         /\ Ids(ret.manifest[1].Roles) = Ids(NotDocker(DocRoles))
         /\ \A i \in 1..Len(ret.manifest[1].Roles) :
              /\ ret.manifest[1].Roles[i].Type \in {RoleTypeBosh, RoleTypeBoshTask}
              /\ ret.manifest[1].Roles[i].Name = NotDocker(DocRoles)[i].Name
              /\ ret.manifest[1].Roles[i].Type =
                   IF NotDocker(DocRoles)[i].Type = "" THEN RoleTypeBosh ELSE NotDocker(DocRoles)[i].Type

C12_Witness ==
  /\ Succeeded
  /\ Len(DocRoles) = 2
  /\ DocRoles[1].Type = RoleTypeDocker
  /\ DocRoles[2].Type = ""
  /\ Len(ret.manifest[1].Roles) = 1
  /\ ret.manifest[1].Roles[1].Type = RoleTypeBosh

----------------------------------------------------------------------------
ScriptFiles(role) == {GetScriptPaths(role)[script] : script \in DOMAIN GetScriptPaths(role)}

(* C13: when GetScriptSignatures has returned, with a signature or with an   *)
(* error, every file it opened has been closed; and when one of the role's   *)
(* script files cannot be opened the operation fails, with no signature.     *)
C13_ScriptFilesClosed ==
  (pc = "version" /\ last.called) =>
    /\ last.closed = last.opened
    /\ (\E f \in ScriptFiles(last.role) : ~fileAt(vin.files, f).exists) =>
         (Len(last.err) > 0 /\ last.version = <<>>)

----------------------------------------------------------------------------
RolesIn(mem, s) == [i \in 1..s.len |-> valueRole(mem, mem[s.arr][i])]

(* C14: when GetRoleManifestDevPackageVersion has returned, with a result or *)
(* an error, the roles the caller passed are in the order they were in, also *)
(* when they are the manifest's own list as SelectRoles gives it for no      *)
(* name; when it or GetRoleDevVersion has returned, every role of the        *)
(* manifest has its jobs in the same order, every job its packages in the    *)
(* same order, and every role the same templates.                            *)
C14_VersioningLeavesInputs ==
  (pc = "frame" /\ last.called) =>
    /\ elems(last.after, last.passed) = elems(last.before, last.passed)
    /\ elems(last.after, vin.manifest) = elems(last.before, vin.manifest)
    /\ RolesIn(last.after, vin.manifest) = RolesIn(last.before, vin.manifest)
    /\ \A a \in 1..Len(last.before) : last.after[a] = last.before[a]

C14_Witness ==
  /\ pc = "frame" /\ last.called
  /\ last.op = "manifest"
  /\ last.passed = vin.manifest
  /\ Len(last.err) = 0
  /\ last.passed.len = 2
  /\ elems(last.after, last.copy) # elems(last.after, last.passed)
  /\ \E i \in 1..2 : \E j \in 1..Len(RolesIn(last.after, last.passed)[i].Jobs) :
       ~SortedByName(RolesIn(last.after, last.passed)[i].Jobs[j].Packages)

====
